---- MODULE Spec2Model ----
(***************************************************************************)
(* EchoTherapy companion: the session pipeline of App (src/types.ts, which *)
(* holds types.ts, App.tsx and services/geminiService.ts one after the     *)
(* other) and the Recorder component (src/components/Recorder.tsx).        *)
(*                                                                         *)
(* Scheduling: one JavaScript event loop.  Every action below is one       *)
(* callback run to its next await (a click handler, a timer tick, a        *)
(* promise continuation, a media or audio event).  State updates made by   *)
(* one callback are rendered together (React batches them), and effects   *)
(* of a render run before the next event is handled, so the countdown      *)
(* effect of Recorder.tsx:94-105 is part of the step that changes          *)
(* `recording` or `timeLeft`.                                              *)
(***************************************************************************)
EXTENDS Integers, Sequences, FiniteSets, TLC

\* ---------------------------------------------------------------- bounds
MaxRecorders == 2     \* getUserMedia calls in a run, hence MediaRecorder objects,
                      \* stop events and handleRecordingComplete calls
MaxVoices == 2        \* playAudio calls in a run that get past line 136, hence
                      \* AudioBufferSourceNodes created

\* ------------------------------------------------------- program constants
RecordLimit == 30     \* setTimeLeft(30)
SampleRate == 24000   \* pcmToAudioBuffer
PcmScale == 32768     \* pcmData[i] / 32768.0
CrisisThreshold == 80 \* result.distressScore > 0.8, in hundredths

Null == [null |-> TRUE]

FixedMessage == "We couldn't quite catch that. Please try again."

Statuses == {"idle", "recording", "analyzing", "completed", "error"}

Styles == {"spiky", "drooping", "trembling", "calm", "particle"}

\* ------------------------------------------------------------ text helpers
\* A label is a sequence of one-character strings.
UpperCase ==
    <<"A","B","C","D","E","F","G","H","I","J","K","L","M",
      "N","O","P","Q","R","S","T","U","V","W","X","Y","Z">>
LowerCase ==
    <<"a","b","c","d","e","f","g","h","i","j","k","l","m",
      "n","o","p","q","r","s","t","u","v","w","x","y","z">>

\* the i flag of the pattern: letters compare without case
Lower(c) ==
    IF \E i \in 1..Len(UpperCase) : UpperCase[i] = c
    THEN LowerCase[CHOOSE i \in 1..Len(UpperCase) : UpperCase[i] = c]
    ELSE c

LowerAll(s) == [i \in 1..Len(s) |-> Lower(s[i])]

\* pat occurs in s as a contiguous substring
Contains(s, pat) ==
    \E i \in 0..(Len(s) - Len(pat)) :
        \A j \in 1..Len(pat) : s[i + j] = pat[j]

\* /joy|relief|happy|hope/i
EmotionPatterns ==
    { <<"j","o","y">>, <<"r","e","l","i","e","f">>,
      <<"h","a","p","p","y">>, <<"h","o","p","e">> }

EmotionMatches(label) ==
    \E pat \in EmotionPatterns : Contains(LowerAll(label), pat)

\* ------------------------------------------------- analysis responses
\* What JSON.parse can return for a response text: any JSON object.  A field
\* named in `missing` is absent from the object (reads give undefined).
\* distressScore is in hundredths.
Payload(miss, emo, dist, plan, inten, bloom, sty, text) ==
    [missing |-> miss, emotion |-> emo, empathySummary |-> "s1", distressScore |-> dist,
     copingPlan |-> plan, intensity |-> inten, bloomSpeed |-> bloom,
     style |-> sty, affirmationText |-> text]

Joy == <<"J","o","y">>
Happiness == <<"H","a","p","p","i","n","e","s","s">>
Anger == <<"a","n","g","e","r">>
Serenity == <<"S","e","r","e","n","i","t","y">>

\* responses that satisfy the schema, one that breaks every rule of it on
\* values, one that lacks a field
PCalmJoy == Payload({}, Joy, 80, 3, 5, 3, "calm", "t1")
PCalmSerenity == Payload({}, Serenity, 80, 3, 5, 3, "calm", "t1")
PParticleHappiness == Payload({}, Happiness, 81, 3, 10, 5, "particle", "t2")
PInvalid == Payload({}, Anger, 150, 2, 50, 0, "zigzag", "t1")
PNoEmotion == Payload({"emotion"}, <<>>, 30, 3, 5, 3, "calm", "t1")

\* The responses of the session specification.  None of them passes the test
\* of line 116, so that the count of confetti timers does not multiply the
\* interleavings explored there; responses that do are drawn in CelebrateSpec
\* and PcmSpec.
Payloads == { PCalmSerenity, PParticleHappiness, PInvalid, PNoEmotion }

\* The schema of spec section 3 / analysisSchema: what a validating client
\* would accept.
SchemaValid(d) ==
    /\ d.missing = {}
    /\ d.copingPlan = 3
    /\ d.intensity \in 1..10
    /\ d.bloomSpeed \in 1..5
    /\ d.distressScore \in 0..100
    /\ d.style \in Styles

\* analyzeSession resolves with JSON.parse(response.text) as it is: the cast
\* `as AnalysisResult` checks nothing at run time.  It rejects on a transport
\* failure, an empty response.text or a text that is not JSON.
AnalyzeAccepts(d) == d \in Payloads

\* generateAffirmationAudio resolves with the decoded bytes, or rejects
\* (transport failure, no inlineData, atob failure).
TtsBytes == { <<0, 0, 0, 64>>, <<0, 0, 0>> }

\* ------------------------------------------------------------ PCM decode
\* (mutant) the two bytes read as an unsigned number
ToUint16(lo, hi) == lo + 256 * hi

\* One element of new Int16Array(buffer): two bytes, low byte first, signed
ToInt16(lo, hi) ==
    LET u == lo + 256 * hi
    IN  IF u >= 32768 THEN u - 65536 ELSE u

\* new Int16Array(buffer) throws a RangeError when byteLength is odd
PcmThrows(bytes) == Len(bytes) % 2 # 0

\* Sample j is data[j] / PcmScale.
pcmToAudioBuffer(bytes) ==
    [channels |-> 1, sampleRate |-> SampleRate,
     data |-> [j \in 1..(Len(bytes) \div 2) |->
                  ToInt16(bytes[2 * j - 1], bytes[2 * j])]]

\* ------------------------------------------------------------------ state
VARIABLES
    status,            \* App: state.status
    errorMessage,      \* App: state.errorMessage ("" when absent)
    result,            \* App: result (Null or a payload)
    isPlaying,         \* App: isPlaying
    audioContext,      \* audioContextRef: "none" | "suspended" | "running"
    audioBuffer,       \* audioBufferRef: Null or a decoded buffer
    sourceNode,        \* sourceNodeRef: 0 (null) or a voice id
    voices,            \* every AudioBufferSourceNode created: id -> [st, buf]
    playPending,       \* playAudio calls awaiting audioContext.resume()
    pipes,             \* every handleRecordingComplete call: id -> position and locals
    recording,         \* Recorder: recording
    timeLeft,          \* Recorder: timeLeft
    mediaRecorderRef,  \* Recorder: mediaRecorderRef (0 or a recorder id)
    recorders,         \* every MediaRecorder created: id -> state
    gumPending,        \* startRecording calls awaiting getUserMedia
    confettiTimers,    \* App: setTimeout(() => confetti(...), 500) calls made so far
    flowerConfig,      \* MoodFlower: the config prop (Null while not mounted)
    scale,             \* MoodFlower: scale
    rotation,          \* MoodFlower: rotation, in tenths of a degree
    bloomTimer,        \* MoodFlower: the setTimeout of the effect is pending
    ticks,             \* MoodFlower: callbacks of the rotation interval run so far
    renderSeed         \* MoodFlower: state of Math.random at the latest render

appVars == <<status, errorMessage, result>>
audioVars == <<isPlaying, audioContext, audioBuffer, sourceNode, voices, playPending>>
recVars == <<recording, timeLeft, mediaRecorderRef, recorders, gumPending>>
flowerVars == <<flowerConfig, scale, rotation, bloomTimer, ticks, renderSeed>>
sessionVars == <<appVars, audioVars, pipes, recVars, confettiTimers>>
vars == <<appVars, audioVars, pipes, recVars, confettiTimers, flowerVars>>

PipeIds == 1..MaxRecorders
RecIds == 1..MaxRecorders
VoiceIds == 1..MaxVoices

NoPipe == [pc |-> "none", data |-> Null, text |-> ""]
NoVoice == [st |-> "none", buf |-> FALSE]

NumPipes == Cardinality({p \in PipeIds : pipes[p].pc # "none"})
NumRecorders == Cardinality({r \in RecIds : recorders[r] # "none"})
NumVoices(vs) == Cardinality({v \in VoiceIds : vs[v].st # "none"})

Init ==
    /\ status = "idle"
    /\ errorMessage = ""
    /\ result = Null
    /\ isPlaying = FALSE
    /\ audioContext = "none"
    /\ audioBuffer = Null
    /\ sourceNode = 0
    /\ voices = [v \in VoiceIds |-> NoVoice]
    /\ playPending = 0
    /\ pipes = [p \in PipeIds |-> NoPipe]
    /\ recording = FALSE
    /\ timeLeft = 0
    /\ mediaRecorderRef = 0
    /\ recorders = [r \in RecIds |-> "none"]
    /\ gumPending = [live |-> 0, stale |-> 0]
    /\ flowerConfig = Null
    /\ scale = 0
    /\ rotation = 0
    /\ bloomTimer = FALSE
    /\ ticks = 0
    /\ renderSeed = 0
    /\ confettiTimers = 0

TypeOK ==
    /\ status \in Statuses
    /\ errorMessage \in {"", FixedMessage}
    /\ result \in Payloads \cup {Null}
    /\ isPlaying \in BOOLEAN
    /\ audioContext \in {"none", "suspended", "running"}
    /\ sourceNode \in 0..MaxVoices
    /\ \A v \in VoiceIds : voices[v].st \in {"none", "playing", "stopped", "ended"}
    /\ playPending \in 0..MaxVoices
    /\ \A p \in PipeIds :
          pipes[p].pc \in {"none", "b64", "analyze", "tts", "returned", "caught"}
    /\ recording \in BOOLEAN
    /\ timeLeft \in 0..RecordLimit
    /\ mediaRecorderRef \in 0..MaxRecorders
    /\ \A r \in RecIds : recorders[r] \in {"none", "recording", "stopping", "inactive"}
    /\ gumPending.live \in 0..MaxRecorders /\ gumPending.stale \in 0..MaxRecorders
    /\ confettiTimers \in 0..MaxRecorders

\* ------------------------------------------------------------- rendering
\* App renders <Recorder> in these states; in the others the component is
\* unmounted and its state, refs and interval are gone.
RecorderMounted(s) == s \in {"idle", "recording", "analyzing"}

\* Recorder's early return: the start and stop buttons are not rendered
IsProcessing == status = "analyzing"

\* The result view (with its play toggle and its reset button)
ResultViewShown == status = "completed" /\ result # Null

\* (mutant) the crisis box shown from the threshold on
CrisisShownAtThreshold ==
    ResultViewShown /\ result.distressScore >= CrisisThreshold

\* The crisis resource box, inside the result view:
\* {result.distressScore > 0.8 && (...)}
CrisisShown ==
    ResultViewShown /\ result.distressScore > CrisisThreshold

\* (mutant) the reset button rendered in every state
ResetShownAlways == TRUE

\* The "Try Again" button (error view) or "Start New Session" (result view)
ResetShown == status = "error" \/ ResultViewShown

\* The effect on the Recorder of App's status becoming s: an unmount drops
\* the component's state; getUserMedia calls it made stay pending, and their
\* continuations then set state and refs of a component that is gone.
RecorderOnStatus(s) ==
    IF RecorderMounted(status) /\ ~RecorderMounted(s)
    THEN /\ recording' = FALSE
         /\ timeLeft' = 0
         /\ mediaRecorderRef' = 0
         /\ gumPending' = [live |-> 0, stale |-> gumPending.stale + gumPending.live]
         /\ UNCHANGED recorders
    ELSE UNCHANGED recVars

\* ------------------------------------------------------ audio playback
\* The audio refs and the isPlaying flag as one value, so that the handlers
\* that call playAudio and stopAudio in sequence can be composed.
Audio ==
    [ctx |-> audioContext, buf |-> audioBuffer, src |-> sourceNode,
     voices |-> voices, pending |-> playPending, playing |-> isPlaying]

SetAudio(a) ==
    /\ audioContext' = a.ctx
    /\ audioBuffer' = a.buf
    /\ sourceNode' = a.src
    /\ voices' = a.voices
    /\ playPending' = a.pending
    /\ isPlaying' = a.playing

\* (mutant) the node of sourceNodeRef left playing
StopNodeNever(vs, v) == vs

\* sourceNodeRef.current.stop(): a playing node stops now and its ended
\* event is delivered later; on a node that has stopped it does nothing
StopNode(vs, v) ==
    IF v # 0 /\ vs[v].st = "playing" THEN [vs EXCEPT ![v].st = "stopped"] ELSE vs

\* playAudio after the resume: stop the node of sourceNodeRef, start a new
\* node on whatever audioBufferRef holds now (a node with a null buffer
\* starts and is silent)
PlayStart(a) ==
    LET n == NumVoices(a.voices) + 1
    IN  [a EXCEPT !.voices = [StopNode(a.voices, a.src) EXCEPT
                                 ![n] = [st |-> "playing", buf |-> a.buf # Null]],
                  !.src = n,
                  !.playing = TRUE]

\* playAudio up to its first suspension
playAudio(a) ==
    IF a.ctx = "none" \/ a.buf = Null THEN a
    ELSE IF a.ctx = "suspended" THEN [a EXCEPT !.pending = @ + 1]
    ELSE PlayStart(a)

\* The model's bound leaves room for this call of playAudio
PlayRoom(a) ==
    \/ a.ctx = "none" \/ a.buf = Null
    \/ NumVoices(a.voices) + a.pending < MaxVoices

stopAudio(a) ==
    IF a.src # 0
    THEN [a EXCEPT !.voices = StopNode(a.voices, a.src), !.playing = FALSE]
    ELSE a

\* The play toggle under the flower and the flower itself:
\* onClick={isPlaying ? stopAudio : playAudio}
ClickPlayToggle ==
    /\ ResultViewShown
    /\ IF isPlaying
       THEN SetAudio(stopAudio(Audio))
       ELSE PlayRoom(Audio) /\ SetAudio(playAudio(Audio))
    /\ UNCHANGED <<appVars, pipes, recVars>>
    /\ UNCHANGED <<flowerVars, confettiTimers>>

\* audioContext.resume() resolves and one suspended playAudio goes on
PlayAudioResumed ==
    /\ playPending > 0
    /\ SetAudio(PlayStart([Audio EXCEPT !.ctx = "running", !.pending = @ - 1]))
    /\ UNCHANGED <<appVars, pipes, recVars>>
    /\ UNCHANGED <<flowerVars, confettiTimers>>

\* source.onended = () => setIsPlaying(false): delivered once per node, when
\* it reaches the end of its buffer or after stop()
OnEnded(v) ==
    /\ \/ voices[v].st = "playing" /\ voices[v].buf
       \/ voices[v].st = "stopped"
    /\ voices' = [voices EXCEPT ![v].st = "ended"]
    /\ isPlaying' = FALSE
    /\ UNCHANGED <<audioContext, audioBuffer, sourceNode, playPending>>
    /\ UNCHANGED <<appVars, pipes, recVars>>
    /\ UNCHANGED <<flowerVars, confettiTimers>>

\* reset
ResetAudio(a) == [stopAudio(a) EXCEPT !.buf = Null]

Reset ==
    /\ ResetShown
    /\ status' = "idle"
    /\ errorMessage' = ""
    /\ result' = Null
    /\ SetAudio(ResetAudio(Audio))
    /\ RecorderOnStatus("idle")
    /\ UNCHANGED pipes
    /\ UNCHANGED <<flowerVars, confettiTimers>>

\* ------------------------------------------------- handleRecordingComplete
\* Positions of a call: "b64" (awaiting blobToBase64), "analyze" (awaiting
\* analyzeSession: the analysis call is outstanding), "tts" (awaiting
\* generateAffirmationAudio), "returned" (ran to its end), "caught" (its
\* catch block ran).  data and text are the local analysisData and the
\* argument given to the speech client.  kind, in Catch, is the error that
\* console.error(error) logs.

\* (mutant) the raw cause shown to the user
ErrorMessageRaw(kind) == kind

\* setState({ status: 'error', errorMessage: ... }): one text for every cause
ErrorMessageFor(kind) == FixedMessage

\* (mutant) the summary sent to the speech client
SpeechRequestSummary(d) == d.empathySummary

\* generateAffirmationAudio(analysisData.affirmationText)
SpeechRequestText(d) ==
    IF "affirmationText" \in d.missing THEN "undefined" ELSE d.affirmationText

\* The condition of line 116 throws a TypeError: flowerConfig is undefined,
\* or the style is in the list and emotion is undefined
CelebrateThrows(d) ==
    \/ "flowerConfig" \in d.missing
    \/ d.style \in {"particle", "calm"} /\ "emotion" \in d.missing

\* ['particle','calm'].includes(style) && emotion.match(/joy|relief|happy|hope/i):
\* when it holds, the run schedules the confetti call (an external effect, 500 ms
\* later, outside the try block) before it calls playAudio
Celebrates(d) ==
    /\ d.style \in {"particle", "calm"}
    /\ EmotionMatches(d.emotion)

\* The catch block, for the App state, the call and the Recorder
Catch(p, kind) ==
    /\ pipes' = [pipes EXCEPT ![p] = [NoPipe EXCEPT !.pc = "caught"]]
    /\ status' = "error"
    /\ errorMessage' = ErrorMessageFor(kind)
    /\ UNCHANGED result
    /\ RecorderOnStatus("error")

\* reader.onloadend / reader.onerror
B64Done(p) ==
    /\ pipes[p].pc = "b64"
    /\ pipes' = [pipes EXCEPT ![p].pc = "analyze"]
    /\ UNCHANGED <<appVars, audioVars, recVars>>
    /\ UNCHANGED <<flowerVars, confettiTimers>>

B64Failed(p) ==
    /\ pipes[p].pc = "b64"
    /\ Catch(p, "b64")
    /\ UNCHANGED audioVars
    /\ UNCHANGED <<flowerVars, confettiTimers>>

\* analyzeSession resolved with d: setResult(d), then the speech call
AnalyzeReturned(p, d) ==
    /\ pipes[p].pc = "analyze"
    /\ AnalyzeAccepts(d)
    /\ result' = d
    /\ pipes' = [pipes EXCEPT ![p].pc = "tts", ![p].data = d,
                              ![p].text = SpeechRequestText(d)]
    /\ UNCHANGED <<status, errorMessage, audioVars, recVars>>
    /\ UNCHANGED <<flowerVars, confettiTimers>>

AnalyzeFailed(p) ==
    /\ pipes[p].pc = "analyze"
    /\ Catch(p, "analysis")
    /\ UNCHANGED audioVars
    /\ UNCHANGED <<flowerVars, confettiTimers>>

TtsFailed(p) ==
    /\ pipes[p].pc = "tts"
    /\ Catch(p, "synthesis")
    /\ UNCHANGED audioVars
    /\ UNCHANGED <<flowerVars, confettiTimers>>

\* A new AudioContext starts suspended or running, as the browser's autoplay
\* policy decides
NewContextStates == {"suspended", "running"}

\* generateAffirmationAudio resolved with bytes: lines 104-127
TtsReturned(p, bytes) ==
    /\ pipes[p].pc = "tts"
    /\ \E st \in (IF audioContext = "none" THEN NewContextStates ELSE {audioContext}) :
         LET a0 == [Audio EXCEPT !.ctx = st]
             a1 == [a0 EXCEPT !.buf = pcmToAudioBuffer(bytes)]
         IN  IF PcmThrows(bytes)
             THEN Catch(p, "decode") /\ SetAudio(a0) /\ UNCHANGED confettiTimers
             ELSE IF CelebrateThrows(pipes[p].data)
             THEN Catch(p, "celebrate") /\ SetAudio(a1) /\ UNCHANGED confettiTimers
             ELSE /\ PlayRoom(a1)
                  /\ status' = "completed"
                  /\ errorMessage' = ""
                  /\ UNCHANGED result
                  /\ pipes' = [pipes EXCEPT ![p] = [NoPipe EXCEPT !.pc = "returned"]]
                  /\ confettiTimers' = confettiTimers +
                        (IF Celebrates(pipes[p].data) THEN 1 ELSE 0)
                  /\ SetAudio(playAudio(a1))
                  /\ RecorderOnStatus("completed")
    /\ UNCHANGED flowerVars

\* ---------------------------------------------------------------- Recorder
\* A start button: rendered when not processing and not recording
ClickStart ==
    /\ RecorderMounted(status) /\ ~IsProcessing /\ ~recording
    /\ NumRecorders + gumPending.live + gumPending.stale < MaxRecorders
    /\ gumPending' = [gumPending EXCEPT !.live = @ + 1]
    /\ UNCHANGED <<appVars, audioVars, pipes, recording, timeLeft,
                   mediaRecorderRef, recorders>>
    /\ UNCHANGED <<flowerVars, confettiTimers>>

\* getUserMedia resolved: lines 46-80.  stale: the call was made by a
\* Recorder that has been unmounted since
GumGranted(stale) ==
    /\ IF stale THEN gumPending.stale > 0 ELSE gumPending.live > 0
    /\ LET n == NumRecorders + 1
       IN  /\ recorders' = [recorders EXCEPT ![n] = "recording"]
           /\ IF stale
              THEN /\ gumPending' = [gumPending EXCEPT !.stale = @ - 1]
                   /\ UNCHANGED <<recording, timeLeft, mediaRecorderRef>>
              ELSE /\ gumPending' = [gumPending EXCEPT !.live = @ - 1]
                   /\ mediaRecorderRef' = n
                   /\ recording' = TRUE
                   /\ timeLeft' = RecordLimit
    /\ UNCHANGED <<appVars, audioVars, pipes>>
    /\ UNCHANGED <<flowerVars, confettiTimers>>

\* getUserMedia rejected: the catch of startRecording shows an alert and
\* changes no state
GumDenied(stale) ==
    /\ IF stale
       THEN gumPending.stale > 0 /\ gumPending' = [gumPending EXCEPT !.stale = @ - 1]
       ELSE gumPending.live > 0 /\ gumPending' = [gumPending EXCEPT !.live = @ - 1]
    /\ UNCHANGED <<appVars, audioVars, pipes, recording, timeLeft,
                   mediaRecorderRef, recorders>>
    /\ UNCHANGED <<flowerVars, confettiTimers>>

\* stopRecording: MediaRecorder.stop() queues the stop event
stopRecording ==
    IF mediaRecorderRef # 0 /\ recording
    THEN /\ recorders' = [recorders EXCEPT ![mediaRecorderRef] =
                              IF @ = "recording" THEN "stopping" ELSE @]
         /\ recording' = FALSE
    ELSE UNCHANGED <<recorders, recording>>

\* The stop button: rendered when not processing and recording
ClickStop ==
    /\ RecorderMounted(status) /\ ~IsProcessing /\ recording
    /\ stopRecording
    /\ UNCHANGED <<appVars, audioVars, pipes, timeLeft,
                   mediaRecorderRef, gumPending>>
    /\ UNCHANGED <<flowerVars, confettiTimers>>

\* One tick of the countdown interval, and the effect that follows the
\* render: at timeLeft 0 the effect calls stopRecording
Tick ==
    /\ RecorderMounted(status) /\ recording /\ timeLeft > 0
    /\ timeLeft' = timeLeft - 1
    /\ IF timeLeft' = 0 THEN stopRecording ELSE UNCHANGED <<recorders, recording>>
    /\ UNCHANGED <<appVars, audioVars, pipes, mediaRecorderRef, gumPending>>
    /\ UNCHANGED <<flowerVars, confettiTimers>>

\* recorder.onstop: onRecordingComplete(blob, ...) runs handleRecordingComplete
\* to its first await, then the tracks are stopped
OnStop(r) ==
    /\ recorders[r] = "stopping"
    /\ recorders' = [recorders EXCEPT ![r] = "inactive"]
    /\ status' = "analyzing"
    /\ errorMessage' = ""
    /\ pipes' = [pipes EXCEPT ![NumPipes + 1].pc = "b64"]
    /\ UNCHANGED <<result, audioVars, recording, timeLeft,
                   mediaRecorderRef, gumPending>>
    /\ UNCHANGED <<flowerVars, confettiTimers>>

\* ------------------------------------------------------------ specification
Next ==
    \/ ClickStart
    \/ \E stale \in BOOLEAN : GumGranted(stale)
    \/ \E stale \in BOOLEAN : GumDenied(stale)
    \/ ClickStop
    \/ Tick
    \/ \E r \in RecIds : OnStop(r)
    \/ \E p \in PipeIds : B64Done(p)
    \/ \E p \in PipeIds : B64Failed(p)
    \/ \E p \in PipeIds, d \in Payloads : AnalyzeReturned(p, d)
    \/ \E p \in PipeIds : AnalyzeFailed(p)
    \/ \E p \in PipeIds, bytes \in TtsBytes : TtsReturned(p, bytes)
    \/ \E p \in PipeIds : TtsFailed(p)
    \/ ClickPlayToggle
    \/ PlayAudioResumed
    \/ \E v \in VoiceIds : OnEnded(v)
    \/ Reset

Spec == Init /\ [][Next]_vars

\* ================================================================ MoodFlower
\* The visualization component (src/components/MoodFlower.tsx) on its own:
\* mounted with a config prop, then driven by its bloom timer, its rotation
\* interval and changes of the prop.  App hands it result.flowerConfig as the
\* analysis response carried it, so the configs below include values outside
\* the schema.  Angles are in tenths of a degree, Math.random values and the
\* particle attributes in thousandths, and a number that may be a half or a
\* quotient is kept exact (in halves, or as [num, den]).
MaxTicks == 3         \* rotation interval ticks in a run

RotationStep == 2     \* prev + 0.2
FullCircle == 3600    \* % 360
ParticleCount == 12   \* for (let i = 0; i < 12; i++)

FlowerStyles == Styles \cup {"zigzag"}
FlowerIntensities == (1..10) \cup {50}
FlowerBloomSpeeds == {0, 1, 5}

FlowerConfigs ==
    { [style |-> s, intensity |-> i, bloomSpeed |-> b] :
         s \in FlowerStyles, i \in FlowerIntensities, b \in FlowerBloomSpeeds }

\* <MoodFlower config={result.flowerConfig} />
FlowerConfigOf(d) ==
    [style |-> d.style, intensity |-> d.intensity, bloomSpeed |-> d.bloomSpeed]

Min(a, b) == IF a < b THEN a ELSE b
Max(a, b) == IF a > b THEN a ELSE b

\* (mutant) the petal number without its clamp
numPetalsUnclamped(c) == c.intensity * 5

\* Math.max(6, Math.min(24, config.intensity * 2.5)), in halves: the value is
\* not rounded, so it is a half-integer for an odd intensity
numPetals(c) == Max(12, Min(48, c.intensity * 5))

\* for (let i = 0; i < numPetals; i++): the value of i when the loop ends,
\* which is the number of petals pushed
RECURSIVE PetalLoop(_, _)
PetalLoop(i, n2) == IF 2 * i < n2 THEN PetalLoop(i + 1, n2) ELSE i

PetalCount(c) == PetalLoop(0, numPetals(c))

\* 360 / numPetals, in degrees
angleStep(c) == [num |-> 720, den |-> numPetals(c)]

\* i * angleStep, for petal i (from 0)
PetalAngle(c, i) == [num |-> i * 720, den |-> numPetals(c)]

\* getPetalPath: the path of the style, the calm path for any other string
getPetalPath(style) ==
    IF style \in {"spiky", "drooping", "trembling", "particle"} THEN style ELSE "calm"

\* translate(0, y): y
PetalTranslate(c) == IF c.style = "drooping" THEN 20 ELSE 0 - (10 + c.intensity)

\* scale(k): k in tenths
PetalScale(c) == IF c.style = "drooping" THEN 6 ELSE 5 + c.intensity

\* r of the center core
CoreRadius(c) == 15 + c.intensity

\* transition: transform ${3 / bloomSpeed}s, in seconds
BloomDuration(c) == [num |-> 3, den |-> c.bloomSpeed]

\* transitionDelay of petal i: i * (300 / bloomSpeed / numPetals), in ms
StaggerDelay(c, i) == [num |-> i * 600, den |-> c.bloomSpeed * numPetals(c)]

\* Math.random(): the generator's state at the start of a render is unknown;
\* call n of the render returns a value of [0, 1), in thousandths
RandomValues == <<0, 250, 500, 750, 999>>
Seeds == 0..(Len(RandomValues) - 1)
Random(seed, n) == RandomValues[((seed + n) % Len(RandomValues)) + 1]

\* (mutant) a radius of twice the spread
ParticleRadiusWide(rnd) == rnd * 8 + 2000

\* Math.random() * 4 + 2
ParticleRadius(rnd) == rnd * 4 + 2000

\* (Math.random() - 0.5) * 150
ParticleCoord(rnd) == (rnd - 500) * 150

\* The particles of a render.  The petal loop has made one Math.random call
\* per petal (animationDelay); particle i then draws r, animationDelay, cx, cy.
Particles(c, seed) ==
    IF c.style = "particle"
    THEN [i \in 1..ParticleCount |->
            LET base == PetalCount(c) + 4 * (i - 1)
            IN  [r |-> ParticleRadius(Random(seed, base)),
                 delay |-> Random(seed, base + 1) * 2,
                 cx |-> ParticleCoord(Random(seed, base + 2)),
                 cy |-> ParticleCoord(Random(seed, base + 3))]]
    ELSE <<>>

\* animationDelay of petal i (from 0): `${Math.random()}s`, call i of the render
TrembleDelay(seed, i) == Random(seed, i)

\* (mutant) a petal whose scale takes its jitter from Math.random
PetalRenderJitter(c, seed, i) ==
    [d |-> getPetalPath(c.style),
     angle |-> PetalAngle(c, i),
     translate |-> PetalTranslate(c),
     scale |-> PetalScale(c) + Random(seed, i),
     transitionDelay |-> StaggerDelay(c, i),
     animationDelay |-> TrembleDelay(seed, i)]

\* The <path> pushed for petal i
PetalRender(c, seed, i) ==
    [d |-> getPetalPath(c.style),
     angle |-> PetalAngle(c, i),
     translate |-> PetalTranslate(c),
     scale |-> PetalScale(c),
     transitionDelay |-> StaggerDelay(c, i),
     animationDelay |-> TrembleDelay(seed, i)]

\* What a render returns for config c when Math.random is in state seed
Scene(c, seed) ==
    [petals |-> [i \in 0..(PetalCount(c) - 1) |-> PetalRender(c, seed, i)],
     particles |-> Particles(c, seed),
     coreRadius |-> CoreRadius(c),
     bloomDuration |-> BloomDuration(c)]

\* (mutant) the rotation state applied to every style
AppliedRotationRaw == rotation

\* rotate(${config.style === 'drooping' ? 0 : rotation}deg)
AppliedRotation == IF flowerConfig.style = "drooping" THEN 0 ELSE rotation

\* const shouldRotate = config.style !== 'calm'
shouldRotate(c) == c.style # "calm"

\* Mount with config c: useState(0) twice, first render, the effect sets the
\* timer and the interval
FlowerInit ==
    /\ Init!1 /\ Init!2 /\ Init!3 /\ Init!4 /\ Init!5 /\ Init!6 /\ Init!7 /\ Init!8
    /\ Init!9 /\ Init!10 /\ Init!11 /\ Init!12 /\ Init!13 /\ Init!14 /\ Init!15
    /\ confettiTimers = 0
    /\ flowerConfig \in FlowerConfigs
    /\ scale = 0
    /\ rotation = 0
    /\ bloomTimer = TRUE
    /\ ticks = 0
    /\ renderSeed \in Seeds

\* setTimeout(() => setScale(1), 100): a render follows when scale changes
BloomTimerFired ==
    /\ bloomTimer
    /\ bloomTimer' = FALSE
    /\ scale' = 1
    /\ IF scale # 1 THEN renderSeed' \in Seeds ELSE UNCHANGED renderSeed
    /\ UNCHANGED <<flowerConfig, rotation, ticks, sessionVars>>

\* One tick of the 50 ms interval: if(shouldRotate) setRotation(...), and the
\* render that follows a changed rotation
RotationTick ==
    /\ ticks < MaxTicks
    /\ ticks' = ticks + 1
    /\ IF shouldRotate(flowerConfig)
       THEN /\ rotation' = (rotation + RotationStep) % FullCircle
            /\ renderSeed' \in Seeds
       ELSE UNCHANGED <<rotation, renderSeed>>
    /\ UNCHANGED <<flowerConfig, scale, bloomTimer, sessionVars>>

\* App renders the flower with another config (setResult while the result view
\* is shown).  The effect depends on config.style only: a new style clears
\* and sets the timer and the interval; scale and rotation are kept.
FlowerConfigChanged(c) ==
    /\ c # flowerConfig
    /\ flowerConfig' = c
    /\ bloomTimer' = IF c.style # flowerConfig.style THEN TRUE ELSE bloomTimer
    /\ renderSeed' \in Seeds
    /\ UNCHANGED <<scale, rotation, ticks, sessionVars>>

FlowerNext ==
    \/ BloomTimerFired
    \/ RotationTick
    \/ \E d \in Payloads : FlowerConfigChanged(FlowerConfigOf(d))

FlowerSpec == FlowerInit /\ [][FlowerNext]_vars

\* ================================================================ PCM decode
\* The decode step of a session on its own, over more byte buffers than the
\* session specification draws: one recording has been made and its analysis
\* has returned (ClickStart, GumGranted, ClickStop, OnStop, B64Done,
\* AnalyzeReturned), the speech call is outstanding.
MaxPcmBytes == 4      \* length of the byte buffer the speech call resolves with

PcmByteValues == {0, 64, 128, 255}

\* bytes.buffer of generateAffirmationAudio: at least one byte (an empty
\* base64 string is rejected), any length
PcmInputs ==
    UNION { [1..n -> PcmByteValues] : n \in 1..MaxPcmBytes }

PcmInit ==
    /\ status = "analyzing"
    /\ errorMessage = ""
    /\ result = PCalmJoy
    /\ isPlaying = FALSE
    /\ audioContext = "none"
    /\ audioBuffer = Null
    /\ sourceNode = 0
    /\ voices = [v \in VoiceIds |-> NoVoice]
    /\ playPending = 0
    /\ pipes = [p \in PipeIds |->
                  IF p = 1
                  THEN [pc |-> "tts", data |-> PCalmJoy, text |-> SpeechRequestText(PCalmJoy)]
                  ELSE NoPipe]
    /\ recording = FALSE
    /\ timeLeft = RecordLimit
    /\ mediaRecorderRef = 1
    /\ recorders = [r \in RecIds |-> IF r = 1 THEN "inactive" ELSE "none"]
    /\ gumPending = [live |-> 0, stale |-> 0]
    /\ flowerConfig = Null
    /\ scale = 0
    /\ rotation = 0
    /\ bloomTimer = FALSE
    /\ ticks = 0
    /\ renderSeed = 0
    /\ confettiTimers = 0

PcmNext ==
    \/ \E bytes \in PcmInputs : TtsReturned(1, bytes)
    \/ PlayAudioResumed
    \/ \E v \in VoiceIds : OnEnded(v)
    \/ ClickPlayToggle

PcmSpec == PcmInit /\ [][PcmNext]_vars

\* ================================================================ celebration
\* The last step of a session on its own, over the emotion labels and styles
\* of the responses: one recording has been made and its analysis has returned
\* d, the speech call is outstanding.
Relief == <<"r","e","l","i","e","f">>
Hope == <<"H","O","P","E">>

CelebrateLabels == { Joy, Relief, Happiness, Hope, Anger, Serenity }

CelebratePayloads ==
    { Payload({}, emo, 30, 3, 5, 3, sty, "t1") : emo \in CelebrateLabels, sty \in Styles }

CelebrateInit ==
    /\ status = "analyzing"
    /\ errorMessage = ""
    /\ result \in CelebratePayloads
    /\ isPlaying = FALSE
    /\ audioContext = "none"
    /\ audioBuffer = Null
    /\ sourceNode = 0
    /\ voices = [v \in VoiceIds |-> NoVoice]
    /\ playPending = 0
    /\ pipes = [p \in PipeIds |->
                  IF p = 1
                  THEN [pc |-> "tts", data |-> result, text |-> SpeechRequestText(result)]
                  ELSE NoPipe]
    /\ recording = FALSE
    /\ timeLeft = RecordLimit
    /\ mediaRecorderRef = 1
    /\ recorders = [r \in RecIds |-> IF r = 1 THEN "inactive" ELSE "none"]
    /\ gumPending = [live |-> 0, stale |-> 0]
    /\ confettiTimers = 0
    /\ flowerConfig = Null
    /\ scale = 0
    /\ rotation = 0
    /\ bloomTimer = FALSE
    /\ ticks = 0
    /\ renderSeed = 0

CelebrateNext ==
    \/ \E bytes \in TtsBytes : TtsReturned(1, bytes)
    \/ TtsFailed(1)
    \/ PlayAudioResumed
    \/ \E v \in VoiceIds : OnEnded(v)
    \/ ClickPlayToggle
    \/ Reset

CelebrateSpec == CelebrateInit /\ [][CelebrateNext]_vars

\* ------------------------------------------------------------------ claims
VoicePlaying == \E v \in VoiceIds : voices[v].st = "playing"
AudibleVoice == \E v \in VoiceIds : voices[v].st = "playing" /\ voices[v].buf
RecorderRecording == \E r \in RecIds : recorders[r] = "recording"
Finished(p) == pipes[p].pc \in {"returned", "caught"}

\* C1 (as claimed): single-flight -- at most one analyzeSession call is
\* outstanding at any time, whatever the interleaving of clicks, stop events,
\* countdown ticks and responses.
C1_SingleFlight ==
    Cardinality({p \in PipeIds : pipes[p].pc = "analyze"}) <= 1

\* C2 (as claimed, its stated case): a held result exists only while the
\* status is 'completed', so in 'error' the partial result has been discarded.
C2_ErrorDiscardsPartialResult ==
    status = "error" => result = Null

\* The state reset is claimed to establish and that is claimed to last until
\* the next captureComplete.
Quiet ==
    /\ status = "idle"
    /\ result = Null
    /\ audioBuffer = Null
    /\ ~isPlaying
    /\ ~VoicePlaying

\* C3 (as claimed): reset yields idle with no result, no buffer and no active
\* voice, and every later step other than a captureComplete keeps it so.
\* (An idle state with a playAudio or a pipeline still in flight exists only
\* after a reset, so the second conjunct speaks of states after a reset.)
C3_ResetStaysQuiet ==
    [][ /\ (Reset => Quiet')
        /\ ((Quiet /\ ~(\E r \in RecIds : OnStop(r))) => Quiet') ]_vars

\* C4 (as claimed): a response that fails schema validation never reaches
\* 'completed': the result the visualization is rendered from is schema-valid.
C4_InvalidResponseNeverShown ==
    ResultViewShown => SchemaValid(result)

\* C5 (as claimed): in no reachable state is a voice playing while a media
\* recorder is recording.
C5_NoVoiceWhileRecording ==
    ~(AudibleVoice /\ RecorderRecording)

\* C6 (as claimed): whenever the capture adapter is recording the status is
\* 'recording', and 'analyzing' is entered only from 'recording'.
C6_RecordingStatus ==
    [][ /\ (RecorderRecording' => status' = "recording")
        /\ ((status # "analyzing" /\ status' = "analyzing") => status = "recording") ]_vars

C8_Ordering ==
    [][ /\ \A p \in PipeIds :
              /\ (pipes[p].pc # "tts" /\ pipes'[p].pc = "tts") =>
                    /\ pipes[p].pc = "analyze"
                    /\ pipes'[p].data \in Payloads
                    /\ result' = pipes'[p].data
                    /\ pipes'[p].text = pipes'[p].data.affirmationText
              /\ (Finished(p) => pipes'[p] = pipes[p])
              /\ ((AnalyzeFailed(p) \/ TtsFailed(p)) =>
                    /\ pipes'[p].pc = "caught"
                    /\ UNCHANGED <<audioBuffer, audioContext>>)
        /\ (audioBuffer' # audioBuffer /\ audioBuffer' # Null) =>
              \E p \in PipeIds : pipes[p].pc = "tts" /\ Finished(p)' ]_vars

C8_Witness ==
    /\ audioBuffer # Null
    /\ \E p, q \in PipeIds :
          /\ pipes[p].pc = "returned"
          /\ pipes[q].pc = "tts" /\ pipes[q].text = "t2"

\* C9 (as claimed): once analysis, synthesis and decoding of a run have all
\* succeeded, the run leaves the controller in 'completed'.
C9_CelebrationNeverFails ==
    [][ \A p \in PipeIds :
          (\E bytes \in TtsBytes : TtsReturned(p, bytes) /\ ~PcmThrows(bytes)) =>
            status' = "completed" ]_vars

\* C10: from 'analyzing' the next status is 'completed' or 'error' (or still
\* 'analyzing'), never 'idle' or 'recording'.
C10_AnalyzingExits ==
    [][ status = "analyzing" => status' \in {"analyzing", "completed", "error"} ]_vars

C10_Witness ==
    /\ status = "completed"
    /\ \E p, q \in PipeIds : pipes[p].pc = "returned" /\ pipes[q].pc = "analyze"

\* ---- MoodFlower (FlowerSpec)
\* Math.round of a number given in halves: halves round up
RoundHalfUp(x2) == (x2 + 1) \div 2

Clamp(x, lo, hi) == IF x < lo THEN lo ELSE IF x > hi THEN hi ELSE x

\* C11: for every integer intensity in 1..10 the number of petals rendered is
\* clamp(round(intensity * 2.5), 6, 24); intensity 1 gives 6 and intensity 10
\* gives 24.
C11_PetalCount ==
    flowerConfig.intensity \in 1..10 =>
        /\ PetalCount(flowerConfig) =
              Clamp(RoundHalfUp(flowerConfig.intensity * 5), 6, 24)
        /\ (flowerConfig.intensity = 1 => PetalCount(flowerConfig) = 6)
        /\ (flowerConfig.intensity = 10 => PetalCount(flowerConfig) = 24)

\* an odd intensity, whose intensity * 2.5 is a half, rendered and bloomed
C11_Witness ==
    /\ flowerConfig.intensity = 7
    /\ PetalCount(flowerConfig) = 18
    /\ scale = 1

\* C12 (as claimed): with n the number of petals rendered, petal i sits at
\* i * step and n * step = 360, for every integer intensity in 1..10.
C12_EvenSpacing ==
    flowerConfig.intensity \in 1..10 =>
        /\ \A i \in 0..(PetalCount(flowerConfig) - 1) :
              PetalAngle(flowerConfig, i).num * angleStep(flowerConfig).den
                  = i * angleStep(flowerConfig).num * PetalAngle(flowerConfig, i).den
        /\ PetalCount(flowerConfig) * angleStep(flowerConfig).num
              = 360 * angleStep(flowerConfig).den

\* C13 (as claimed): on every tick of the interval the angle applied to the
\* scene advances by the increment for spiky, trembling, calm and particle,
\* whatever the bloom timer has done; for drooping it does not change.
C13_RotatesUnlessDrooping ==
    [][ RotationTick =>
          IF flowerConfig.style = "drooping"
          THEN AppliedRotation' = AppliedRotation
          ELSE flowerConfig.style \in Styles =>
                  AppliedRotation' = (AppliedRotation + RotationStep) % FullCircle ]_vars

\* C14: the angle applied to a drooping scene is 0 after any number of ticks.
C14_DroopingNeverRotates ==
    flowerConfig.style = "drooping" => AppliedRotation = 0

\* a drooping scene whose interval has ticked: the rotation state has moved
C14_Witness ==
    /\ flowerConfig.style = "drooping"
    /\ ticks = MaxTicks /\ rotation = MaxTicks * RotationStep
    /\ scale = 1

\* C18 (as claimed): the intensity behind the petal count, the core radius,
\* the petal translate and the petal scale lies in 1..10, and the bloomSpeed
\* behind the bloom duration and the stagger delay lies in 1..5, whatever the
\* response carried.
C18_GeometryInputsInRange ==
    /\ numPetals(flowerConfig) \in 12..48
    /\ CoreRadius(flowerConfig) - 15 \in 1..10
    /\ flowerConfig.style # "drooping" =>
          /\ (0 - PetalTranslate(flowerConfig)) - 10 \in 1..10
          /\ PetalScale(flowerConfig) - 5 \in 1..10
    /\ BloomDuration(flowerConfig).den \in 1..5
    /\ \A i \in 1..(PetalCount(flowerConfig) - 1) :
          StaggerDelay(flowerConfig, i).den \in
              { b * n2 : b \in 1..5, n2 \in 12..48 }

\* C20: a particle scene has exactly 12 particles, each with radius in [2, 6]
\* and both coordinates in [-75, 75]; a scene of any other style has none.
C20_Particles ==
    LET ps == Particles(flowerConfig, renderSeed)
    IN  IF flowerConfig.style = "particle"
        THEN /\ Len(ps) = 12
             /\ \A i \in 1..Len(ps) :
                   /\ ps[i].r >= 2000 /\ ps[i].r <= 6000
                   /\ ps[i].cx >= -75000 /\ ps[i].cx <= 75000
                   /\ ps[i].cy >= -75000 /\ ps[i].cy <= 75000
        ELSE ps = <<>>

\* a bloomed, rotated particle scene with a particle near the largest radius
\* and one at the edge of the square
C20_Witness ==
    /\ flowerConfig.style = "particle"
    /\ scale = 1 /\ rotation > 0
    /\ \E i, j \in 1..ParticleCount :
          /\ Particles(flowerConfig, renderSeed)[i].r > 5900
          /\ Particles(flowerConfig, renderSeed)[j].cx = -75000

\* ---- session (Spec)
\* C15: the crisis box is shown exactly when the status is 'completed' with a
\* held result whose distressScore is above 0.8: not at 0.80, at 0.81, and
\* never in idle, recording, analyzing or error.
C15_CrisisBoundary ==
    /\ CrisisShown <=>
          (status = "completed" /\ result # Null /\ result.distressScore > 80)
    /\ (status = "completed" /\ result # Null /\ result.distressScore = 80)
          => ~CrisisShown
    /\ (status = "completed" /\ result # Null /\ result.distressScore = 81)
          => CrisisShown
    /\ status \in {"idle", "recording", "analyzing", "error"} => ~CrisisShown

\* completed at exactly 0.80: the box is not shown
C15_Witness ==
    /\ status = "completed" /\ result # Null
    /\ result.distressScore = 80
    /\ ~CrisisShown

\* C16: at most one voice is playing at any time, and a step that starts a
\* voice leaves no other voice playing.
C16_OneVoice ==
    [][ /\ Cardinality({v \in VoiceIds : voices'[v].st = "playing"}) <= 1
        /\ \A v \in VoiceIds :
              (voices[v].st = "none" /\ voices'[v].st = "playing") =>
                  \A w \in VoiceIds \ {v} : voices'[w].st # "playing" ]_vars

\* a second voice started by a playAudio continuation while the first was
\* playing: the first has been stopped
C16_Witness ==
    /\ voices[1].st = "stopped"
    /\ voices[2].st = "playing" /\ voices[2].buf
    /\ sourceNode = 2 /\ isPlaying

\* C17 (as claimed): every recorder that is recording is the one the mounted
\* Recorder counts down for, the countdown stops it at the 30th tick and not
\* before, and a recorder that has emitted its stop event emits no other.
C17_AutoStopOnce ==
    [][ /\ \A r \in RecIds :
              recorders'[r] = "recording" =>
                  /\ RecorderMounted(status')
                  /\ recording' /\ mediaRecorderRef' = r
                  /\ timeLeft' \in 1..RecordLimit
        /\ \A r \in RecIds :
              (Tick /\ recorders[r] = "recording" /\ recorders'[r] = "stopping")
                  => timeLeft = 1
        /\ \A r \in RecIds :
              recorders[r] = "inactive" => recorders'[r] = "inactive" ]_vars

\* ---- PCM decode (PcmSpec)
\* the j-th 16-bit signed little-endian integer of a byte buffer
SignedLE(bytes, j) ==
    ((bytes[2 * j - 1] + 256 * bytes[2 * j] + 32768) % 65536) - 32768

\* C19: decoding 2k bytes yields k mono samples at 24000 Hz, sample j being the
\* j-th 16-bit signed integer over 32768, hence in [-1, 1); bytes 00 00 00 40
\* give 0.0 and 0.5; an odd number of bytes is a decode failure that puts the
\* controller in 'error' with no buffer decoded.
C19_Decode ==
    [][ \A bytes \in PcmInputs :
          TtsReturned(1, bytes) =>
            IF Len(bytes) % 2 = 1
            THEN status' = "error" /\ audioBuffer' = audioBuffer
            ELSE /\ audioBuffer'.channels = 1
                 /\ audioBuffer'.sampleRate = 24000
                 /\ Len(audioBuffer'.data) * 2 = Len(bytes)
                 /\ \A j \in 1..Len(audioBuffer'.data) :
                       /\ audioBuffer'.data[j] = SignedLE(bytes, j)
                       /\ audioBuffer'.data[j] >= 0 - PcmScale
                       /\ audioBuffer'.data[j] < PcmScale
                 /\ (bytes = <<0, 0, 0, 64>> =>
                        /\ audioBuffer'.data[1] = 0
                        /\ audioBuffer'.data[2] * 2 = PcmScale) ]_vars

\* the example of the claim decoded, the session completed
C19_Witness ==
    /\ status = "completed"
    /\ audioBuffer # Null
    /\ audioBuffer.data = <<0, 16384>>

\* ---- celebration (CelebrateSpec)
\* the label is one of the four affirmative categories, whatever its case
AffirmativeLabel(label) ==
    LowerAll(label) \in { LowerAll(Joy), LowerAll(Relief), LowerAll(Happiness), LowerAll(Hope) }

\* C22 (as claimed): on entry to 'completed' the confetti timer is set if and
\* only if the emotion label is joy, relief, happiness or hope and the style
\* is calm or particle.
C22_CelebratesAffirmative ==
    [][ \A bytes \in TtsBytes :
          (TtsReturned(1, bytes) /\ status' = "completed") =>
              ( (confettiTimers' = confettiTimers + 1)
                  <=> ( /\ AffirmativeLabel(pipes[1].data.emotion)
                        /\ pipes[1].data.style \in {"calm", "particle"} ) ) ]_vars

\* ---- MoodFlower (FlowerSpec), continued
\* The geometry of a scene: petal count, and per petal its path, transform and
\* stagger delay; center radius; bloom duration
Geometry(scene) ==
    [petals |-> [i \in DOMAIN scene.petals |->
                    [d |-> scene.petals[i].d,
                     angle |-> scene.petals[i].angle,
                     translate |-> scene.petals[i].translate,
                     scale |-> scene.petals[i].scale,
                     transitionDelay |-> scene.petals[i].transitionDelay]],
     coreRadius |-> scene.coreRadius,
     bloomDuration |-> scene.bloomDuration]

\* C21: two renders of the same config have the same geometry, whatever the
\* random source yields in each.
C21_GeometryDeterministic ==
    \A seed \in Seeds :
        Geometry(Scene(flowerConfig, seed)) = Geometry(Scene(flowerConfig, renderSeed))

\* a trembling scene rendered again after its mount, which another state of
\* the random source would decorate differently
C21_Witness ==
    /\ flowerConfig.style = "trembling"
    /\ scale = 1 /\ rotation > 0
    /\ \E seed \in Seeds : Scene(flowerConfig, seed) # Scene(flowerConfig, renderSeed)

\* C27 (as claimed): a tick of the rotation interval leaves the particles, the
\* tremble delays, the petal geometry and the bloom scale as they were.
C27_TickChangesRotationOnly ==
    [][ RotationTick =>
          /\ Scene(flowerConfig, renderSeed)' = Scene(flowerConfig, renderSeed)
          /\ scale' = scale ]_vars

\* ---- session (Spec), continued
\* C23 (as claimed, its safety part): in 'completed' and in 'error' a reset
\* button is rendered, so the controller is never left in a state that offers
\* the user no action.
C23_ResetAlwaysOffered ==
    status \in {"completed", "error"} => ResetShown

\* C24 (as claimed): in 'completed' a result and a decoded buffer are held.
C24_CompletedHoldsResult ==
    status = "completed" => (result # Null /\ audioBuffer # Null)

\* C25 (as claimed): isPlaying is true whenever the voice started last is
\* still playing, and false whenever no voice is playing.
C25_FlagAgreesWithVoice ==
    /\ (sourceNode # 0 /\ voices[sourceNode].st = "playing") => isPlaying
    /\ ~VoicePlaying => ~isPlaying

\* C26 (as claimed): at most one recorder is recording; a recorder that is
\* recording is the one stopRecording reaches (the one in mediaRecorderRef of
\* the mounted Recorder, with `recording` set); and none is recording while
\* the status is 'analyzing' or 'completed'.
C26_OneReachableRecorder ==
    /\ Cardinality({r \in RecIds : recorders[r] = "recording"}) <= 1
    /\ \A r \in RecIds :
          recorders[r] = "recording" =>
              /\ RecorderMounted(status) /\ recording /\ mediaRecorderRef = r
              /\ status \notin {"analyzing", "completed"}

====
